---- MODULE Spec2Model ----
(***************************************************************************)
(* Model of the knx repository: the home route (meta, loader, Home), the   *)
(* Welcome component, the no-console lint rule, the transfer_funds         *)
(* database function of the database-functions guide, the rate limiter of  *)
(* the edge-functions guide, the upload example of the storage guide, and  *)
(* the Clerk webhook and the auth-validation Worker of the supabase guide. *)
(***************************************************************************)
EXTENDS Integers, Sequences, FiniteSets, Bags, TLC

VARIABLES
  \* home route, one entry per request in flight
  pc,           \* position of each request in its request/render cycle
  reqContext,   \* the load context of each request
  loaderData,   \* what loader returned for each request
  loaderCalls,  \* how often loader ran in the request's cycle
  welcomeProps, \* the props Home handed to Welcome
  response,     \* the markup Welcome returned
  metaOut,      \* what meta returned
  \* lint run
  linted,       \* the console calls of the linted file, in order
  reported,     \* for each of them, whether no-console reported it
  \* transfer_funds
  balance,      \* committed balance of each account row
  initialBalance,
  transfers,    \* committed rows of public.transfers
  rowLock,      \* the call holding the row lock of each account
  call,         \* per call: position, arguments, locals, uncommitted writes
  raised,       \* the error most recently raised to a client
  \* isRateLimited
  ipRequests,   \* the Map from client IP to { count, resetAt }
  now,          \* Date.now()
  admitted,     \* per IP, the calls that returned false in its current window
  rejectedInWindow, \* per IP, whether a call was rejected in its current window
  lastCall,     \* the most recent call of isRateLimited and what it returned
  \* upload example
  upFile,       \* the file handed to uploadFile
  upBinding,    \* what the caller's uploadPromise and cancel are bound to
  upPc,         \* position of the caller
  upBranch,     \* the branch of the result handling the caller reached
  upload,       \* the storage upload request
  signalAborted,  \* controller.signal.aborted
  cancelInFlight, \* the cancel function was called while the upload ran
  clickError,   \* the click listener threw
  \* clerk-org-webhook
  organizations,        \* rows of organizations, counted per clerk_org_id
  organization_members, \* rows of organization_members, counted per row value
  hook,         \* per webhook request in flight: position, signature, payload
  hookStatus,   \* status of the most recent webhook response
  changedBy,    \* the signatures of the requests that inserted or deleted rows
  \* auth-validation Worker
  fetchReq      \* per request: position, method, header, Clerk call, response

routeVars == <<pc, reqContext, loaderData, loaderCalls, welcomeProps,
               response, metaOut>>

lintVars == <<linted, reported>>

dbVars == <<balance, initialBalance, transfers, rowLock, call, raised>>

rateVars == <<ipRequests, now, admitted, rejectedInWindow, lastCall>>

uploadVars == <<upFile, upBinding, upPc, upBranch, upload, signalAborted,
                cancelInFlight, clickError>>

hookVars == <<organizations, organization_members, hook, hookStatus, changedBy>>

authVars == <<fetchReq>>

guideVars == <<rateVars, uploadVars, hookVars, authVars>>

vars == <<routeVars, lintVars, dbVars, guideVars>>

\* ------------------------------------------------------------------------
\* Bounds
\* ------------------------------------------------------------------------
MaxRequests == 2

\* length of the linted file, in console calls
MaxConsoleCalls == 3

\* account rows, the initial balance of a funded account (also the largest
\* amount a call asks for) and the number of transfer_funds calls
NumAccounts == 2

MaxBalance == 1

MaxCalls == 2

\* how far the clock of the rate limiter runs, in half windows
MaxTicks == 4

\* webhook requests in flight, and equal rows a table holds at most
MaxHooks == 2

MaxRows == 2

\* requests the auth-validation Worker serves at the same time
MaxFetches == 2

Reqs == 1..MaxRequests

\* ------------------------------------------------------------------------
\* JavaScript values: strings, undefined and React elements
\* ------------------------------------------------------------------------
Undefined == [type |-> "undefined", val |-> ""]

Str(s) == [type |-> "string", val |-> s]

Element(text) == [type |-> "element", val |-> text]

\* the strings an environment variable is given in the model
Messages == {"", "0", "hello"}

EnvKey == "VALUE_FROM_CLOUDFLARE"

\* Cloudflare environments: the variable is set (possibly to "") or not set;
\* another binding is always present
Envs ==
  { [k \in {"OTHER_BINDING"} |-> "other"] }
  \cup { [k \in {"OTHER_BINDING", EnvKey} |->
            IF k = EnvKey THEN m ELSE "other"] : m \in Messages }

\* the load context the platform hands to loader
Contexts == { [cloudflare |-> [env |-> e]] : e \in Envs }

\* obj.key on a JavaScript object: the value, or undefined for a missing key
GetProp(obj, key) == IF key \in DOMAIN obj THEN Str(obj[key]) ELSE Undefined

\* JavaScript truthiness of a value
Truthy(v) ==
  CASE v.type = "undefined" -> FALSE
    [] v.type = "string"    -> v.val # ""
    [] OTHER                -> TRUE

\* a && b
JsAnd(a, b) == IF Truthy(a) THEN b ELSE a

\* ------------------------------------------------------------------------
\* routes/home: meta, loader, Home
\* ------------------------------------------------------------------------
meta(args) ==
  << [title |-> "Kognova Nexus"],
     [name |-> "description", content |-> "Centralized Document Repository"] >>

\* a loader that rejects a missing or empty variable
loaderThrowsOnEmpty(context) ==
  LET v == GetProp(context.cloudflare.env, EnvKey)
  IN  IF Truthy(v) THEN [threw |-> FALSE, value |-> [message |-> v]]
                   ELSE [threw |-> TRUE, value |-> [message |-> Undefined]]

\* a loader that substitutes a default for a missing or empty variable
loaderDefaulted(context) ==
  LET v == GetProp(context.cloudflare.env, EnvKey)
  IN  [threw |-> FALSE,
       value |-> [message |-> IF Truthy(v) THEN v ELSE Str("Hello")]]

\* loader: { message: context.cloudflare.env.VALUE_FROM_CLOUDFLARE }
loader(context) ==
  [threw |-> FALSE,
   value |-> [message |-> GetProp(context.cloudflare.env, EnvKey)]]

\* ------------------------------------------------------------------------
\* Welcome
\* ------------------------------------------------------------------------
Heading == "Kognova Nexus MotherFucker"

Tagline == "A centralized document repository"

\* the text a JSX child {v} contributes
TextOf(v) == IF v.type = "string" THEN v.val ELSE ""

\* what React puts in the document for a child value
RenderChild(c) ==
  IF c.type = "element"
  THEN [present |-> TRUE, text |-> c.val]
  ELSE [present |-> FALSE, text |-> ""]

\* a Welcome without the condition on the banner
WelcomeAlwaysBanner(props) ==
  [heading |-> Heading,
   tagline |-> Tagline,
   banner  |-> RenderChild(Element(TextOf(props.message)))]

\* a Welcome that uses the message as its heading
WelcomeHeadingWithMessage(props) ==
  [heading |-> IF Truthy(props.message) THEN TextOf(props.message) ELSE Heading,
   tagline |-> Tagline,
   banner  |-> RenderChild(JsAnd(props.message,
                                 Element(TextOf(props.message))))]

\* Welcome({ message }): heading, tagline and {message && <div>...</div>}
Welcome(props) ==
  [heading |-> Heading,
   tagline |-> Tagline,
   banner  |-> RenderChild(JsAnd(props.message,
                                 Element(TextOf(props.message))))]

\* Home({ loaderData }): the props it hands to Welcome
HomeProps(data) == [message |-> data.message]

\* ------------------------------------------------------------------------
\* The request/render cycle of the home route
\* ------------------------------------------------------------------------
NoData == <<>>

NoProps == [message |-> Undefined]

NoResponse ==
  [heading |-> "", tagline |-> "", banner |-> [present |-> FALSE, text |-> ""]]

DefaultContext == [cloudflare |-> [env |-> [k \in {"OTHER_BINDING"} |-> "other"]]]

\* loader data kept in one place shared by all requests
StoreLoaderDataShared(store, r, d) == [q \in Reqs |-> d]

\* the value loader returns belongs to the request it was called for
StoreLoaderData(store, r, d) == [store EXCEPT ![r] = d]

RouteInit ==
  /\ pc = [r \in Reqs |-> "idle"]
  /\ reqContext = [r \in Reqs |-> DefaultContext]
  /\ loaderData = [r \in Reqs |-> NoData]
  /\ loaderCalls = [r \in Reqs |-> 0]
  /\ welcomeProps = [r \in Reqs |-> NoProps]
  /\ response = [r \in Reqs |-> NoResponse]
  /\ metaOut = [r \in Reqs |-> <<>>]

\* the platform receives a request and builds its load context
Receive(r) ==
  /\ pc[r] = "idle"
  /\ \E c \in Contexts : reqContext' = [reqContext EXCEPT ![r] = c]
  /\ pc' = [pc EXCEPT ![r] = "received"]
  /\ UNCHANGED <<loaderData, loaderCalls, welcomeProps, response, metaOut>>
  /\ UNCHANGED <<lintVars, dbVars, guideVars>>

\* the framework calls loader({ context })
RunLoader(r) ==
  /\ pc[r] = "received"
  /\ LET res == loader(reqContext[r])
     IN  /\ loaderCalls' = [loaderCalls EXCEPT ![r] = @ + 1]
         /\ IF res.threw
            THEN /\ pc' = [pc EXCEPT ![r] = "failed"]
                 /\ UNCHANGED loaderData
            ELSE /\ pc' = [pc EXCEPT ![r] = "loaded"]
                 /\ loaderData' = StoreLoaderData(loaderData, r, res.value)
  /\ UNCHANGED <<reqContext, welcomeProps, response, metaOut>>
  /\ UNCHANGED <<lintVars, dbVars, guideVars>>

\* the framework calls meta(args) for the document head
RunMeta(r) ==
  /\ pc[r] = "loaded"
  /\ metaOut' = [metaOut EXCEPT ![r] = meta(loaderData[r])]
  /\ pc' = [pc EXCEPT ![r] = "meta"]
  /\ UNCHANGED <<reqContext, loaderData, loaderCalls, welcomeProps, response>>
  /\ UNCHANGED <<lintVars, dbVars, guideVars>>

\* the framework renders Home, which renders Welcome
RenderHome(r) ==
  /\ pc[r] = "meta"
  /\ LET props == HomeProps(loaderData[r])
     IN  /\ welcomeProps' = [welcomeProps EXCEPT ![r] = props]
         /\ response' = [response EXCEPT ![r] = Welcome(props)]
  /\ pc' = [pc EXCEPT ![r] = "rendered"]
  /\ UNCHANGED <<reqContext, loaderData, loaderCalls, metaOut>>
  /\ UNCHANGED <<lintVars, dbVars, guideVars>>

\* the response is sent and the request is over
Respond(r) ==
  /\ pc[r] \in {"rendered", "failed"}
  /\ pc' = [pc EXCEPT ![r] = "idle"]
  /\ reqContext' = [reqContext EXCEPT ![r] = DefaultContext]
  /\ loaderData' = [loaderData EXCEPT ![r] = NoData]
  /\ loaderCalls' = [loaderCalls EXCEPT ![r] = 0]
  /\ welcomeProps' = [welcomeProps EXCEPT ![r] = NoProps]
  /\ response' = [response EXCEPT ![r] = NoResponse]
  /\ metaOut' = [metaOut EXCEPT ![r] = <<>>]
  /\ UNCHANGED <<lintVars, dbVars, guideVars>>

RouteNext ==
  \E r \in Reqs :
    \/ Receive(r)
    \/ RunLoader(r)
    \/ RunMeta(r)
    \/ RenderHome(r)
    \/ Respond(r)

\* ------------------------------------------------------------------------
\* eslint.config.js: the no-console rule
\* ------------------------------------------------------------------------
ConsoleMethods == {"log", "warn", "error", "info", "debug"}

\* 'no-console': ['warn', { allow: [...] }]
NoConsoleAllow == {"warn", "error", "info"}

\* the rule reports console.<method> unless the method is allowed
NoConsoleReports(method) == method \notin NoConsoleAllow

LintInit ==
  /\ linted = <<>>
  /\ reported = <<>>

\* the linter visits the next console call of the file
LintConsoleCall ==
  /\ Len(linted) < MaxConsoleCalls
  /\ \E m \in ConsoleMethods :
       /\ linted' = Append(linted, m)
       /\ reported' = Append(reported, NoConsoleReports(m))
  /\ UNCHANGED <<routeVars, dbVars, guideVars>>

\* ------------------------------------------------------------------------
\* public.transfer_funds(from_account_id, to_account_id, amount)
\* ------------------------------------------------------------------------
Calls == 1..MaxCalls

\* the rows of public.accounts
Accounts == 1..NumAccounts

\* an id that no row of public.accounts has
MissingAccount == NumAccounts + 1

AccountIds == Accounts \cup {MissingAccount}

Users == {"alice", "bob"}

\* the owner_id column
Owner(a) == IF a % 2 = 1 THEN "alice" ELSE "bob"

Amounts == (-1)..MaxBalance

NoWrites == [a \in {} |-> 0]

IdleCall ==
  [pc |-> "idle", from |-> 0, to |-> 0, amount |-> 0, user |-> "",
   from_balance |-> 0, writes |-> NoWrites,
   result |-> "none"]

RECURSIVE SumOver(_, _)
SumOver(f, S) ==
  IF S = {} THEN 0
  ELSE LET a == CHOOSE x \in S : TRUE IN f[a] + SumOver(f, S \ {a})

\* sum of the balance column
TotalBalance(b) == SumOver(b, DOMAIN b)

\* the balance of row a as call t sees it: its own uncommitted write, or
\* the committed row
Visible(t, a) ==
  IF a \in DOMAIN call[t].writes THEN call[t].writes[a] ELSE balance[a]

\* the row lock of row a can be taken by call t
LockFree(t, a) == rowLock[a] \in {0, t}

ReleaseLocks(t) == [a \in Accounts |-> IF rowLock[a] = t THEN 0 ELSE rowLock[a]]

EndedCall(res) == [IdleCall EXCEPT !.pc = "done", !.result = res]

\* an error that leaves the writes of the call in place
RaiseKeepsWrites(t, why) ==
  /\ call' = [call EXCEPT ![t] = EndedCall("error")]
  /\ raised' = why
  /\ balance' = [a \in Accounts |-> Visible(t, a)]
  /\ rowLock' = ReleaseLocks(t)
  /\ UNCHANGED <<transfers, initialBalance, routeVars, lintVars, guideVars>>

\* RAISE EXCEPTION, and the handler WHEN OTHERS THEN RAISE: the error leaves
\* the function, the uncommitted writes of the call are rolled back and its
\* row locks are released
Raise(t, why) ==
  /\ call' = [call EXCEPT ![t] = EndedCall("error")]
  /\ raised' = why
  /\ rowLock' = ReleaseLocks(t)
  /\ UNCHANGED <<balance, transfers, initialBalance, routeVars, lintVars, guideVars>>

\* every account starts empty or with MaxBalance
DbInit ==
  /\ balance \in [Accounts -> {0, MaxBalance}]
  /\ initialBalance = balance
  /\ transfers = EmptyBag
  /\ rowLock = [a \in Accounts |-> 0]
  /\ call = [t \in Calls |-> IdleCall]
  /\ raised = "none"

\* a client calls the function (calls are numbered in the order in which
\* they are issued); input validation and the ownership check
Invoke(t) ==
  /\ call[t].pc = "idle"
  /\ \A u \in Calls : u < t => call[u].pc # "idle"
  /\ \E f \in AccountIds, d \in AccountIds, amt \in Amounts, u \in Users :
       IF amt <= 0 THEN Raise(t, "amount")
       ELSE IF f = d THEN Raise(t, "same")
       ELSE IF ~(\E a \in Accounts : a = f /\ Owner(a) = u)
            THEN Raise(t, "owner")
       ELSE /\ call' = [call EXCEPT ![t] =
                          [IdleCall EXCEPT !.pc = "select", !.from = f,
                                           !.to = d, !.amount = amt,
                                           !.user = u]]
            /\ UNCHANGED <<balance, transfers, initialBalance, rowLock, raised, routeVars, lintVars, guideVars>>

\* the balance read without FOR UPDATE
SelectBalanceNoLock(t) ==
  /\ call[t].pc = "select"
  /\ LET b == balance[call[t].from]
     IN  IF b < call[t].amount
         THEN Raise(t, "funds")
         ELSE /\ call' = [call EXCEPT ![t].from_balance = b,
                                      ![t].pc = "debit"]
              /\ UNCHANGED <<balance, transfers, initialBalance, rowLock, raised, routeVars, lintVars, guideVars>>

\* SELECT balance INTO from_balance ... FOR UPDATE, and the funds check
SelectBalanceForUpdate(t) ==
  /\ call[t].pc = "select"
  /\ LockFree(t, call[t].from)
  /\ LET b == balance[call[t].from]
     IN  IF b < call[t].amount
         THEN Raise(t, "funds")
         ELSE /\ call' = [call EXCEPT ![t].from_balance = b,
                                      ![t].pc = "debit"]
              /\ rowLock' = [rowLock EXCEPT ![call[t].from] = t]
              /\ UNCHANGED <<balance, transfers, initialBalance, raised, routeVars, lintVars, guideVars>>

\* UPDATE public.accounts SET balance = balance - amount WHERE id = from
Debit(t) ==
  /\ call[t].pc = "debit"
  /\ LockFree(t, call[t].from)
  /\ LET a == call[t].from
     IN  /\ call' = [call EXCEPT
                       ![t].writes = (a :> (Visible(t, a) - call[t].amount)) @@ @,
                       ![t].pc = "credit"]
         /\ rowLock' = [rowLock EXCEPT ![a] = t]
  /\ UNCHANGED <<balance, transfers, initialBalance, raised, routeVars, lintVars, guideVars>>

\* UPDATE public.accounts SET balance = balance + amount WHERE id = to:
\* a row that does not exist is not updated, and that is no error
Credit(t) ==
  /\ call[t].pc = "credit"
  /\ LET a == call[t].to
     IN  IF a \in Accounts
         THEN /\ LockFree(t, a)
              /\ call' = [call EXCEPT
                            ![t].writes = (a :> (Visible(t, a) + call[t].amount)) @@ @,
                            ![t].pc = "insert"]
              /\ rowLock' = [rowLock EXCEPT ![a] = t]
         ELSE /\ call' = [call EXCEPT ![t].pc = "insert"]
              /\ UNCHANGED rowLock
  /\ UNCHANGED <<balance, transfers, initialBalance, raised, routeVars, lintVars, guideVars>>

\* INSERT INTO public.transfers (...) VALUES (...) and RETURN true: the
\* statement that called the function ends and its transaction commits
InsertTransferAndReturn(t) ==
  /\ call[t].pc = "insert"
  /\ balance' = [a \in Accounts |-> Visible(t, a)]
  /\ transfers' = transfers (+) SetToBag({[from_account_id |-> call[t].from,
                                           to_account_id |-> call[t].to,
                                           amount |-> call[t].amount,
                                           created_by |-> call[t].user]})
  /\ rowLock' = ReleaseLocks(t)
  /\ call' = [call EXCEPT ![t] = EndedCall("true")]
  /\ UNCHANGED <<initialBalance, raised, routeVars, lintVars, guideVars>>

\* the row call t is about to lock, 0 if none
Needed(t) ==
  CASE call[t].pc \in {"select", "debit"} -> call[t].from
    [] call[t].pc = "credit" /\ call[t].to \in Accounts -> call[t].to
    [] OTHER -> 0

\* the call that holds the lock call t waits for, 0 if t does not wait
Blocker(t) ==
  IF Needed(t) # 0 /\ ~LockFree(t, Needed(t)) THEN rowLock[Needed(t)] ELSE 0

RECURSIVE WaitsOn(_, _, _)
WaitsOn(u, t, n) ==
  /\ n > 0
  /\ Blocker(u) # 0
  /\ \/ Blocker(u) = t
     \/ WaitsOn(Blocker(u), t, n - 1)

\* the database finds call t in a cycle of lock waits and fails its
\* statement with deadlock_detected
DeadlockDetected(t) ==
  /\ WaitsOn(t, t, MaxCalls)
  /\ Raise(t, "deadlock")

\* the INSERT fails (a constraint or policy of public.transfers rejects the
\* row, or the statement is cancelled)
InsertFails(t) ==
  /\ call[t].pc = "insert"
  /\ Raise(t, "insert")

DbNext ==
  \E t \in Calls :
    \/ Invoke(t)
    \/ SelectBalanceForUpdate(t)
    \/ Debit(t)
    \/ Credit(t)
    \/ InsertTransferAndReturn(t)
    \/ DeadlockDetected(t)
    \/ InsertFails(t)

\* ------------------------------------------------------------------------
\* Rate limiting: isRateLimited(ip)
\* ------------------------------------------------------------------------
RATE_LIMIT == 10

WINDOW_MS == 60 * 1000

\* the clock advances in steps of half a window
TickMs == WINDOW_MS \div 2

\* the values of the x-forwarded-for header, 'unknown' when it is absent
ClientIPs == {"203.0.113.7", "unknown"}

\* ipRequests.set(ip, record)
MapSet(map, ip, record) == (ip :> record) @@ map

\* a limiter that compares the count with > instead of >=
isRateLimitedOffByOne(map, ip, t) ==
  IF ip \notin DOMAIN map \/ t > map[ip].resetAt
  THEN [limited |-> FALSE,
        map |-> MapSet(map, ip, [count |-> 1, resetAt |-> t + WINDOW_MS])]
  ELSE IF map[ip].count > RATE_LIMIT
       THEN [limited |-> TRUE, map |-> map]
       ELSE [limited |-> FALSE,
             map |-> MapSet(map, ip, [map[ip] EXCEPT !.count = @ + 1])]

\* a limiter that starts a window only for an IP without a record
isRateLimitedNoExpiry(map, ip, t) ==
  IF ip \notin DOMAIN map
  THEN [limited |-> FALSE,
        map |-> MapSet(map, ip, [count |-> 1, resetAt |-> t + WINDOW_MS])]
  ELSE IF map[ip].count >= RATE_LIMIT
       THEN [limited |-> TRUE, map |-> map]
       ELSE [limited |-> FALSE,
             map |-> MapSet(map, ip, [map[ip] EXCEPT !.count = @ + 1])]

\* isRateLimited(ip) at time t: what it returns and the Map afterwards
isRateLimited(map, ip, t) ==
  IF ip \notin DOMAIN map \/ t > map[ip].resetAt
  THEN [limited |-> FALSE,
        map |-> MapSet(map, ip, [count |-> 1, resetAt |-> t + WINDOW_MS])]
  ELSE IF map[ip].count >= RATE_LIMIT
       THEN [limited |-> TRUE, map |-> map]
       ELSE [limited |-> FALSE,
             map |-> MapSet(map, ip, [map[ip] EXCEPT !.count = @ + 1])]

NoCall == [ip |-> "", limited |-> FALSE, expired |-> FALSE,
           readmitted |-> FALSE, n |-> 0]

RateInit ==
  /\ ipRequests = [ip \in {} |-> 0]
  /\ now = 0
  /\ admitted = [ip \in ClientIPs |-> 0]
  /\ rejectedInWindow = [ip \in ClientIPs |-> FALSE]
  /\ lastCall = NoCall

\* a window of the IP starts with this call: it has no record, or the call
\* comes later than the resetAt of its record
WindowStarts(ip) == ip \notin DOMAIN ipRequests \/ now > ipRequests[ip].resetAt

\* a request of client ip arrives and the function calls isRateLimited
CallIsRateLimited(ip) ==
  LET res == isRateLimited(ipRequests, ip, now)
      expired == ip \in DOMAIN ipRequests /\ now > ipRequests[ip].resetAt
  IN  /\ ipRequests' = res.map
      /\ admitted' =
           IF res.limited THEN admitted
           ELSE [admitted EXCEPT ![ip] = IF WindowStarts(ip) THEN 1 ELSE @ + 1]
      /\ rejectedInWindow' =
           [rejectedInWindow EXCEPT ![ip] =
              IF res.limited THEN TRUE
              ELSE IF WindowStarts(ip) THEN FALSE ELSE @]
      /\ lastCall' = [ip |-> ip, limited |-> res.limited, expired |-> expired,
                      readmitted |-> expired /\ rejectedInWindow[ip] /\ ~res.limited,
                      n |-> 1 - lastCall.n]
      /\ UNCHANGED now
      /\ UNCHANGED <<routeVars, lintVars, dbVars, uploadVars, hookVars, authVars>>

\* time passes
Tick ==
  /\ now < MaxTicks * TickMs
  /\ now' = now + TickMs
  /\ UNCHANGED <<ipRequests, admitted, rejectedInWindow, lastCall>>
  /\ UNCHANGED <<routeVars, lintVars, dbVars, uploadVars, hookVars, authVars>>

RateNext ==
  \/ \E ip \in ClientIPs : CallIsRateLimited(ip)
  \/ Tick

\* ------------------------------------------------------------------------
\* Upload example: uploadFile(file, bucket, path) and its usage
\* ------------------------------------------------------------------------
\* const maxSize = 100 * 1024 * 1024, in MB
maxSizeMB == 100

allowedTypes == {"image/jpeg", "image/png", "image/webp", "application/pdf"}

\* the files a user picks: size in MB and MIME type
Files ==
  [size : {1, maxSizeMB, maxSizeMB + 1},
   type : {"image/jpeg", "application/pdf", "image/gif"}]

NoFile == [size |-> 0, type |-> ""]

\* the file validation of uploadFile passes
FileValid(file) == file.size <= maxSizeMB /\ file.type \in allowedTypes

\* the options uploadFile passes to storage.from(bucket).upload(path, file, ...)
UploadOptionKeys == {"cacheControl", "upsert", "contentType", "duplex"}

\* the upload request listens to the AbortController's signal
SignalWired == "signal" \in UploadOptionKeys

UploadInit ==
  /\ upFile = NoFile
  /\ upBinding = "none"
  /\ upPc = "start"
  /\ upBranch = "none"
  /\ upload = "none"
  /\ signalAborted = FALSE
  /\ cancelInFlight = FALSE
  /\ clickError = FALSE

\* const { uploadPromise, cancel } = uploadFile(...): uploadFile is an async
\* function, so the usage example destructures a Promise and both names are
\* undefined ("destructured"); a caller that awaits uploadFile first holds
\* the returned object ("awaited").  The body of uploadFile runs up to its
\* return either way.
CallUploadFile ==
  /\ upPc = "start"
  /\ \E file \in Files, b \in {"destructured", "awaited"} :
       /\ upFile' = file
       /\ upBinding' = b
       /\ IF FileValid(file)
          THEN /\ upload' = "inflight"
               /\ upPc' = "awaiting"
               /\ UNCHANGED upBranch
          ELSE \* uploadFile throws: its Promise is rejected
               /\ upload' = "none"
               /\ IF b = "awaited"
                  THEN upPc' = "done" /\ upBranch' = "thrown"
                  ELSE upPc' = "awaiting" /\ UNCHANGED upBranch
  /\ UNCHANGED <<signalAborted, cancelInFlight, clickError>>
  /\ UNCHANGED <<routeVars, lintVars, dbVars, rateVars, hookVars, authVars>>

\* the user clicks the cancel button: the listener calls cancel()
ClickCancel ==
  /\ upPc # "start"
  /\ ~signalAborted /\ ~clickError
  /\ IF upBinding = "awaited" /\ FileValid(upFile)
     THEN \* cancel: () => controller.abort()
          /\ signalAborted' = TRUE
          /\ cancelInFlight' = (upload = "inflight")
          /\ UNCHANGED clickError
     ELSE \* cancel is undefined: TypeError in the listener
          /\ clickError' = TRUE
          /\ UNCHANGED <<signalAborted, cancelInFlight>>
  /\ UNCHANGED <<upFile, upBinding, upPc, upBranch, upload>>
  /\ UNCHANGED <<routeVars, lintVars, dbVars, rateVars, hookVars, authVars>>

\* the storage service answers the upload request; a request that listens
\* to an aborted signal is aborted instead
UploadSettles ==
  /\ upload = "inflight"
  /\ IF SignalWired /\ signalAborted
     THEN upload' = "aborted"
     ELSE \E outcome \in {"stored", "error"} : upload' = outcome
  /\ UNCHANGED <<upFile, upBinding, upPc, upBranch, signalAborted,
                 cancelInFlight, clickError>>
  /\ UNCHANGED <<routeVars, lintVars, dbVars, rateVars, hookVars, authVars>>

\* try { const { data, error } = await uploadPromise; ... } catch (error)
HandleUploadResult ==
  /\ upPc = "awaiting"
  /\ IF upBinding = "destructured"
     THEN \* await undefined, then destructuring undefined throws TypeError
          upBranch' = "otherError"
     ELSE /\ upload \in {"stored", "error", "aborted"}
          /\ upBranch' = CASE upload = "stored"  -> "success"
                            [] upload = "error"   -> "failed"
                            [] upload = "aborted" -> "abortError"
  /\ upPc' = "done"
  /\ UNCHANGED <<upFile, upBinding, upload, signalAborted, cancelInFlight,
                 clickError>>
  /\ UNCHANGED <<routeVars, lintVars, dbVars, rateVars, hookVars, authVars>>

UploadNext ==
  \/ CallUploadFile
  \/ ClickCancel
  \/ UploadSettles
  \/ HandleUploadResult

\* ------------------------------------------------------------------------
\* clerk-org-webhook: the Deno.serve handler and its three event handlers
\* ------------------------------------------------------------------------
Hooks == 1..MaxHooks

\* the svix-signature header of a request: absent, present but not a
\* signature of the body, or a signature of the body
Signatures == {"missing", "forged", "valid"}

ClerkOrgs == {"org_1"}

ClerkUsers == {"user_1"}

EventTypes == {"organization.created", "organizationMembership.created",
               "organizationMembership.deleted", "user.created"}

\* request bodies: JSON of an event, or text that JSON.parse rejects
Payloads ==
  [type : EventTypes, org : ClerkOrgs, user : ClerkUsers,
   role : {"org:admin", "org:member"}]

NoPayload == [type |-> "", org |-> "", user |-> "", role |-> ""]

Malformed == [NoPayload EXCEPT !.type = "malformed"]

Bodies == Payloads \cup {Malformed}

MemberRows == ClerkOrgs \X ClerkUsers \X {"admin", "member"}

IdleHook == [pc |-> "idle", sig |-> "missing", payload |-> NoPayload]

HookInit ==
  /\ organizations = [o \in ClerkOrgs |-> 0]
  /\ organization_members = [m \in MemberRows |-> 0]
  /\ hook = [h \in Hooks |-> IdleHook]
  /\ hookStatus = 0
  /\ changedBy = {}

\* if (!signature) return 401: the only use the handler makes of the header
SignaturePasses(sig) == sig # "missing"

\* the handler answers request h with a status and is done with it
HookRespond(h, status) ==
  /\ hook' = [hook EXCEPT ![h] = IdleHook]
  /\ hookStatus' = status

\* Deno.serve handler up to its first database call: the signature check,
\* req.text(), JSON.parse and the switch on payload.type
HookReceive(h) ==
  /\ hook[h].pc = "idle"
  /\ \E sig \in Signatures, body \in Bodies :
       IF ~SignaturePasses(sig) THEN HookRespond(h, 401)
       ELSE IF body = Malformed THEN HookRespond(h, 500)
       ELSE IF body.type = "organization.created"
            THEN /\ hook' = [hook EXCEPT ![h] =
                               [pc |-> "insertOrg", sig |-> sig, payload |-> body]]
                 /\ UNCHANGED hookStatus
       ELSE IF body.type \in {"organizationMembership.created",
                              "organizationMembership.deleted"}
            THEN /\ hook' = [hook EXCEPT ![h] =
                               [pc |-> "selectOrg", sig |-> sig, payload |-> body]]
                 /\ UNCHANGED hookStatus
       ELSE HookRespond(h, 200)
  /\ UNCHANGED <<organizations, organization_members, changedBy>>
  /\ UNCHANGED <<routeVars, lintVars, dbVars, rateVars, uploadVars, authVars>>

\* handleOrganizationCreated: insert into organizations, throw on error
HandleOrganizationCreated(h) ==
  /\ hook[h].pc = "insertOrg"
  /\ \/ /\ organizations[hook[h].payload.org] < MaxRows
        /\ organizations' = [organizations EXCEPT ![hook[h].payload.org] = @ + 1]
        /\ changedBy' = changedBy \cup {hook[h].sig}
        /\ HookRespond(h, 200)
     \/ /\ HookRespond(h, 500)
        /\ UNCHANGED <<organizations, changedBy>>
  /\ UNCHANGED organization_members
  /\ UNCHANGED <<routeVars, lintVars, dbVars, rateVars, uploadVars, authVars>>

\* handleMembershipCreated / handleMembershipDeleted, first half: select the
\* organization with .single(), throw unless exactly one row matches
HandleMembershipSelect(h) ==
  /\ hook[h].pc = "selectOrg"
  /\ IF organizations[hook[h].payload.org] = 1
     THEN /\ hook' = [hook EXCEPT ![h].pc = "writeMember"]
          /\ UNCHANGED hookStatus
     ELSE HookRespond(h, 500)
  /\ UNCHANGED <<organizations, organization_members, changedBy>>
  /\ UNCHANGED <<routeVars, lintVars, dbVars, rateVars, uploadVars, authVars>>

\* role: data.role === 'org:admin' ? 'admin' : 'member'
MemberRole(role) == IF role = "org:admin" THEN "admin" ELSE "member"

\* handleMembershipCreated / handleMembershipDeleted, second half: insert
\* the member row, or delete the rows matching organization and user
HandleMembershipWrite(h) ==
  /\ hook[h].pc = "writeMember"
  /\ LET p == hook[h].payload
         row == <<p.org, p.user, MemberRole(p.role)>>
         after ==
           IF p.type = "organizationMembership.created"
           THEN [organization_members EXCEPT ![row] = @ + 1]
           ELSE [m \in MemberRows |->
                   IF m[1] = p.org /\ m[2] = p.user
                   THEN 0 ELSE organization_members[m]]
     IN  \/ /\ \A m \in MemberRows : after[m] <= MaxRows
            /\ organization_members' = after
            /\ changedBy' = IF after # organization_members
                            THEN changedBy \cup {hook[h].sig} ELSE changedBy
            /\ HookRespond(h, 200)
         \/ /\ HookRespond(h, 500)
            /\ UNCHANGED <<organization_members, changedBy>>
  /\ UNCHANGED organizations
  /\ UNCHANGED <<routeVars, lintVars, dbVars, rateVars, uploadVars, authVars>>

HookNext ==
  \E h \in Hooks :
    \/ HookReceive(h)
    \/ HandleOrganizationCreated(h)
    \/ HandleMembershipSelect(h)
    \/ HandleMembershipWrite(h)

\* ------------------------------------------------------------------------
\* Auth-validation Worker: fetch(request, env, ctx)
\* ------------------------------------------------------------------------
Fetches == 1..MaxFetches

Methods == {"OPTIONS", "GET", "POST"}

\* the Authorization header: absent, or its text, written as the pieces
\* that split(' ') yields ("Bearer " is <<"Bearer", "">>)
NoHeader == [present |-> FALSE, parts |-> <<>>]

Header(parts) == [present |-> TRUE, parts |-> parts]

AuthHeaders ==
  { NoHeader,
    Header(<<"">>),
    Header(<<"Bearer">>),
    Header(<<"Bearer", "">>),
    Header(<<"Bearer", "tok_good">>),
    Header(<<"Bearer", "tok_bad">>),
    Header(<<"Basic", "tok_good">>),
    Header(<<"bearer", "tok_good">>) }

\* the session tokens Clerk accepts
ValidTokens == {"tok_good"}

\* authHeader.startsWith('Bearer ')
StartsWithBearer(h) == Len(h.parts) >= 2 /\ h.parts[1] = "Bearer"

\* a header check that asks for a header of any scheme
HeaderAcceptedAnyScheme(h) == h.present /\ Len(h.parts) >= 2

\* the negation of (!authHeader || !authHeader.startsWith('Bearer '))
HeaderAccepted(h) ==
  /\ h.present /\ h.parts # <<"">>
  /\ StartsWithBearer(h)

\* authHeader.split(' ')[1]
TokenOf(h) == h.parts[2]

NoAnswer == [status |-> 0, body |-> "", cors |-> FALSE]

IdleFetch ==
  [pc |-> "idle", method |-> "", header |-> NoHeader, token |-> "",
   clerk |-> "none", clerkCalls |-> 0, answer |-> NoAnswer]

AuthInit == fetchReq = [w \in Fetches |-> IdleFetch]

\* fetch up to the call of the Clerk API: the OPTIONS branch, the header
\* check and the extraction of the token
WorkerFetch(w) ==
  /\ fetchReq[w].pc = "idle"
  /\ \E meth \in Methods, h \in AuthHeaders :
       LET req == [IdleFetch EXCEPT !.method = meth, !.header = h]
       IN  fetchReq' = [fetchReq EXCEPT ![w] =
             IF meth = "OPTIONS"
             THEN [req EXCEPT !.pc = "responded",
                              !.answer = [status |-> 200, body |-> "", cors |-> TRUE]]
             ELSE IF ~HeaderAccepted(h)
             THEN [req EXCEPT !.pc = "responded",
                              !.answer = [status |-> 401, body |-> "Unauthorized",
                                          cors |-> FALSE]]
             ELSE [req EXCEPT !.pc = "verify", !.token = TokenOf(h)]]
  /\ UNCHANGED <<routeVars, lintVars, dbVars, rateVars, uploadVars, hookVars>>

\* await fetch('https://api.clerk.dev/v1/sessions/verify', ...) and what
\* follows: Clerk answers ok for a token it accepts and not ok otherwise,
\* or the call (or reading its JSON) throws
ClerkAnswers(w) ==
  /\ fetchReq[w].pc = "verify"
  /\ \E outcome \in {"answered", "threw"} :
       LET clerk == IF outcome = "threw" THEN "threw"
                    ELSE IF fetchReq[w].token \in ValidTokens THEN "ok"
                    ELSE "notok"
       IN  fetchReq' = [fetchReq EXCEPT
             ![w].pc = "responded",
             ![w].clerk = clerk,
             ![w].clerkCalls = @ + 1,
             ![w].answer =
               CASE clerk = "ok" ->
                      [status |-> 200, body |-> "Authenticated successfully",
                       cors |-> TRUE]
                 [] clerk = "notok" ->
                      [status |-> 401, body |-> "Invalid token", cors |-> FALSE]
                 [] OTHER ->
                      [status |-> 500, body |-> "Authentication error",
                       cors |-> FALSE]]
  /\ UNCHANGED <<routeVars, lintVars, dbVars, rateVars, uploadVars, hookVars>>

\* the response has been sent
WorkerDone(w) ==
  /\ fetchReq[w].pc = "responded"
  /\ fetchReq' = [fetchReq EXCEPT ![w] = IdleFetch]
  /\ UNCHANGED <<routeVars, lintVars, dbVars, rateVars, uploadVars, hookVars>>

AuthNext ==
  \E w \in Fetches :
    \/ WorkerFetch(w)
    \/ ClerkAnswers(w)
    \/ WorkerDone(w)

GuideIdle == RateInit /\ UploadInit /\ HookInit /\ AuthInit

\* ------------------------------------------------------------------------
\* Specifications
\* ------------------------------------------------------------------------
RouteIdle ==
  /\ pc = [r \in Reqs |-> "idle"]
  /\ reqContext = [r \in Reqs |-> DefaultContext]
  /\ loaderData = [r \in Reqs |-> NoData]
  /\ loaderCalls = [r \in Reqs |-> 0]
  /\ welcomeProps = [r \in Reqs |-> NoProps]
  /\ response = [r \in Reqs |-> NoResponse]
  /\ metaOut = [r \in Reqs |-> <<>>]

DbIdle ==
  /\ balance = [a \in Accounts |-> 0]
  /\ initialBalance = balance
  /\ transfers = EmptyBag
  /\ rowLock = [a \in Accounts |-> 0]
  /\ call = [t \in Calls |-> IdleCall]
  /\ raised = "none"

\* the home route serving requests
Init == RouteInit /\ LintInit /\ DbIdle /\ GuideIdle

Next == RouteNext

Spec == Init /\ [][Next]_vars

\* a lint run over a file of console calls
LintSpecInit == RouteIdle /\ LintInit /\ DbIdle /\ GuideIdle

LintNext == LintConsoleCall

LintSpec == LintSpecInit /\ [][LintNext]_vars

\* clients calling transfer_funds concurrently
DbSpecInit == RouteIdle /\ LintInit /\ DbInit /\ GuideIdle

DbSpec == DbSpecInit /\ [][DbNext]_vars

\* clients calling a function that is rate limited, while time passes
RateSpecInit == RouteIdle /\ LintInit /\ DbIdle /\ GuideIdle

RateSpec == RateSpecInit /\ [][RateNext]_vars

\* one run of the upload example
UploadSpecInit == RouteIdle /\ LintInit /\ DbIdle /\ GuideIdle

UploadSpec == UploadSpecInit /\ [][UploadNext]_vars

\* Clerk (or anyone else) posting to the webhook
HookSpecInit == RouteIdle /\ LintInit /\ DbIdle /\ GuideIdle

HookSpec == HookSpecInit /\ [][HookNext]_vars

\* clients calling the auth-validation Worker
AuthSpecInit == RouteIdle /\ LintInit /\ DbIdle /\ GuideIdle

AuthSpec == AuthSpecInit /\ [][AuthNext]_vars

\* ------------------------------------------------------------------------
\* Properties of the home route
\* ------------------------------------------------------------------------
Rendered(r) == pc[r] = "rendered"

\* the value of VALUE_FROM_CLOUDFLARE in the environment of request r
EnvValue(r) ==
  LET env == reqContext[r].cloudflare.env
  IN  IF EnvKey \in DOMAIN env
      THEN [type |-> "string", val |-> env[EnvKey]]
      ELSE [type |-> "undefined", val |-> ""]

\* C1: when Welcome has rendered a string message, the banner is present
\* exactly if the message is not the empty string, and a present banner
\* holds exactly the message text.
C1_BannerIffNonEmpty ==
  \A r \in Reqs :
    (Rendered(r) /\ welcomeProps[r].message.type = "string") =>
      /\ response[r].banner.present <=> (welcomeProps[r].message.val # "")
      /\ response[r].banner.present =>
            response[r].banner.text = welcomeProps[r].message.val

C1_Witness ==
  \E r, q \in Reqs :
    /\ Rendered(r) /\ welcomeProps[r].message = Str("0")
    /\ response[r].banner = [present |-> TRUE, text |-> "0"]
    /\ Rendered(q) /\ welcomeProps[q].message = Str("")
    /\ ~response[q].banner.present

\* C2: the message Welcome receives is the VALUE_FROM_CLOUDFLARE value of the
\* request's environment: loader returns it under the key message and Home
\* forwards it unchanged.
C2_MessageIsEnvValue ==
  \A r \in Reqs :
    /\ pc[r] \in {"loaded", "meta", "rendered"} =>
         loaderData[r].message = EnvValue(r)
    /\ Rendered(r) => welcomeProps[r].message = EnvValue(r)

C2_Witness ==
  \E r, q \in Reqs :
    /\ Rendered(r) /\ welcomeProps[r].message = Str("hello")
    /\ Rendered(q) /\ EnvValue(q) = Str("") /\ welcomeProps[q].message = Str("")

\* C3: for every environment configuration (variable set to a non-empty
\* value, set to the empty string, or not set) the message that reaches
\* Welcome is a string.
C3_MessageIsString ==
  \A r \in Reqs : Rendered(r) => welcomeProps[r].message.type = "string"

\* what a request with context c renders when it runs alone
RenderedAlone(c) ==
  LET value == [message |->
                  IF EnvKey \in DOMAIN c.cloudflare.env
                  THEN [type |-> "string", val |-> c.cloudflare.env[EnvKey]]
                  ELSE [type |-> "undefined", val |-> ""]]
      text == value.message.val
  IN  [heading |-> "Kognova Nexus MotherFucker",
       tagline |-> "A centralized document repository",
       banner  |-> IF text # "" THEN [present |-> TRUE, text |-> text]
                                ELSE [present |-> FALSE, text |-> ""]]

\* C4: under any interleaving of concurrent requests, what is rendered for a
\* request is what the request renders alone; it depends on the request's
\* own environment only.
C4_RequestsIsolated ==
  \A r \in Reqs : Rendered(r) => response[r] = RenderedAlone(reqContext[r])

C4_Witness ==
  \E r, q \in Reqs :
    /\ r # q
    /\ Rendered(r) /\ pc[q] \in {"loaded", "meta", "rendered"}
    /\ EnvValue(r) = Str("hello")
    /\ EnvValue(q) # EnvValue(r)
    /\ response[r].banner.text = "hello"

\* C5: loader and Welcome have no error outcome and are not retried: no
\* request fails, loader runs at most once per request, what it returned
\* has the key message, and a rendered request has markup.
C5_NoErrorNoRetry ==
  \A r \in Reqs :
    /\ pc[r] # "failed"
    /\ loaderCalls[r] <= 1
    /\ pc[r] \in {"loaded", "meta", "rendered"} =>
         (loaderCalls[r] = 1 /\ "message" \in DOMAIN loaderData[r])
    /\ Rendered(r) => response[r] # NoResponse

C5_Witness ==
  \E r, q \in Reqs :
    /\ Rendered(r) /\ EnvValue(r) = Undefined /\ loaderCalls[r] = 1
    /\ Rendered(q) /\ EnvValue(q) = Str("")

\* C6: heading, tagline, title and description do not depend on the message:
\* they are the same for every rendered request.
C6_StaticMarkup ==
  \A r \in Reqs :
    Rendered(r) =>
      /\ response[r].heading = "Kognova Nexus MotherFucker"
      /\ response[r].tagline = "A centralized document repository"
      /\ metaOut[r] =
           << [title |-> "Kognova Nexus"],
              [name |-> "description",
               content |-> "Centralized Document Repository"] >>

C6_Witness ==
  \E r, q \in Reqs :
    /\ Rendered(r) /\ Rendered(q)
    /\ welcomeProps[r].message = Str("hello")
    /\ welcomeProps[q].message = Undefined
    /\ response[r].heading = response[q].heading
    /\ response[r].banner # response[q].banner

\* ------------------------------------------------------------------------
\* Properties of the lint configuration
\* ------------------------------------------------------------------------
\* C7: no-console reports every console call except console.warn and
\* console.error.
C7_OnlyWarnAndErrorAllowed ==
  \A i \in 1..Len(linted) :
    reported[i] <=> (linted[i] \notin {"warn", "error"})

\* ------------------------------------------------------------------------
\* Properties of transfer_funds
\* ------------------------------------------------------------------------
Succeeded == {t \in Calls : call[t].result = "true"}

\* C8: the sum of all balances is the initial sum, and every successful call
\* has added one transfers record.
C8_MoneyConserved ==
  /\ TotalBalance(balance) = TotalBalance(initialBalance)
  /\ BagCardinality(transfers) = Cardinality(Succeeded)

\* C9: no balance is negative, committed or written by a call in progress,
\* under any interleaving of concurrent calls; between the funds check and
\* the debit the call holds the row lock of the source account and the
\* balance it checked is still the balance of the row.
C9_NeverOverdrawn ==
  /\ \A a \in Accounts : balance[a] >= 0
  /\ \A t \in Calls : \A a \in DOMAIN call[t].writes : call[t].writes[a] >= 0
  /\ \A t \in Calls :
       call[t].pc = "debit" =>
         /\ rowLock[call[t].from] = t
         /\ balance[call[t].from] = call[t].from_balance

C9_Witness ==
  \E t, u \in Calls :
    /\ t # u
    /\ call[t].from = call[u].from
    /\ call[t].pc \in {"credit", "insert"}
    /\ call[u].pc = "select"
    /\ rowLock[call[t].from] = t
    /\ balance[call[t].from] >= call[u].amount
    /\ balance[call[t].from] < call[t].amount + call[u].amount

\* C10: the step in which a call raises an error changes no committed
\* balance and no row of transfers, and nothing the call wrote remains.
C10_ErrorChangesNothing ==
  [][\A t \in Calls :
       (call[t].result # "error" /\ call'[t].result = "error") =>
         /\ balance' = balance
         /\ transfers' = transfers
         /\ call'[t].writes = NoWrites]_vars

C10_Witness ==
  /\ raised \in {"deadlock", "insert"}
  /\ \E t \in Calls : call[t].result = "error"
  /\ balance = initialBalance
  /\ transfers = EmptyBag

\* ------------------------------------------------------------------------
\* Properties of the rate limiter
\* ------------------------------------------------------------------------
\* C11: in the window of an IP at most RATE_LIMIT calls return false, the
\* stored count never exceeds RATE_LIMIT, and a call that is rejected leaves
\* the Map as it was.
C11_AtMostRateLimitPerWindow ==
  /\ [](/\ \A ip \in ClientIPs : admitted[ip] <= 10
        /\ \A ip \in DOMAIN ipRequests : ipRequests[ip].count <= 10)
  /\ [][(lastCall'.n # lastCall.n /\ lastCall'.limited) =>
          /\ ipRequests' = ipRequests
          /\ ipRequests[lastCall'.ip].count = 10
          /\ now <= ipRequests[lastCall'.ip].resetAt]_vars

C11_Witness ==
  /\ lastCall.limited
  /\ admitted[lastCall.ip] = 10
  /\ ipRequests[lastCall.ip].count = 10
  /\ now = ipRequests[lastCall.ip].resetAt

\* C12: the first call for an IP later than the resetAt of its record
\* returns false and replaces the record by count 1 and a resetAt one window
\* after the call; the records of the other IPs stay as they are.
C12_AdmittedAfterExpiry ==
  [][\A ip \in DOMAIN ipRequests :
       (lastCall'.n # lastCall.n /\ lastCall'.ip = ip
          /\ now > ipRequests[ip].resetAt) =>
         /\ ~lastCall'.limited
         /\ ipRequests'[ip] = [count |-> 1, resetAt |-> now + 60000]
         /\ \A other \in DOMAIN ipRequests \ {ip} :
              /\ other \in DOMAIN ipRequests'
              /\ ipRequests'[other] = ipRequests[other]
         /\ DOMAIN ipRequests' = DOMAIN ipRequests]_vars

C12_Witness ==
  /\ lastCall.readmitted
  /\ ipRequests[lastCall.ip].count = 1
  /\ ipRequests[lastCall.ip].resetAt = now + 60000
  /\ \E other \in DOMAIN ipRequests : other # lastCall.ip

\* ------------------------------------------------------------------------
\* Properties of the upload example
\* ------------------------------------------------------------------------
\* C13: when the cancel function returned by uploadFile was called before
\* the upload completed (and the storage service did not fail the upload for
\* a reason of its own), the upload is not stored and the caller ends in the
\* AbortError branch.
C13_CancelAbortsUpload ==
  (cancelInFlight /\ upPc = "done" /\ upload # "error") =>
    (upload # "stored" /\ upBranch = "abortError")

\* ------------------------------------------------------------------------
\* Properties of the Clerk organization webhook
\* ------------------------------------------------------------------------
\* C14: no row of organizations or organization_members is inserted or
\* deleted by a request whose svix-signature is missing or is not a valid
\* signature of the request body.
C14_NoChangeWithoutValidSignature == changedBy \subseteq {"valid"}

\* ------------------------------------------------------------------------
\* Properties of the auth-validation Worker
\* ------------------------------------------------------------------------
Responded(w) == fetchReq[w].pc = "responded"

\* the text of the header begins with "Bearer " (the word and a space)
IsBearerHeader(h) ==
  h.present /\ Len(h.parts) >= 2 /\ h.parts[1] = "Bearer"

\* C15: 'Authenticated successfully' is answered only to a request with a
\* "Bearer " Authorization header whose token Clerk accepted; a non-OPTIONS
\* request without such a header gets 401 and Clerk is not called; a token
\* Clerk rejects gets 401; a failing Clerk call gets 500; an OPTIONS request
\* gets the CORS headers and no token check.
C15_AuthenticatedOnlyIfVerified ==
  \A w \in Fetches :
    Responded(w) =>
      LET q == fetchReq[w] IN
      /\ q.answer.body = "Authenticated successfully" =>
           /\ q.method # "OPTIONS"
           /\ IsBearerHeader(q.header)
           /\ q.clerk = "ok" /\ q.clerkCalls = 1
           /\ q.token = q.header.parts[2] /\ q.token \in {"tok_good"}
      /\ (q.method # "OPTIONS" /\ ~IsBearerHeader(q.header)) =>
           (q.answer.status = 401 /\ q.clerkCalls = 0)
      /\ q.clerk = "notok" => q.answer.status = 401
      /\ q.clerk = "threw" => q.answer.status = 500
      /\ q.method = "OPTIONS" =>
           (q.answer.cors /\ q.clerkCalls = 0 /\ q.clerk = "none"
              /\ q.answer.body = "")

C15_Witness ==
  \E w, v \in Fetches :
    /\ Responded(w) /\ fetchReq[w].answer.body = "Authenticated successfully"
    /\ fetchReq[w].header.parts = <<"Bearer", "tok_good">>
    /\ Responded(v) /\ fetchReq[v].method = "POST"
    /\ fetchReq[v].header.parts = <<"Basic", "tok_good">>
    /\ fetchReq[v].answer.status = 401 /\ fetchReq[v].clerkCalls = 0

====
